---- MODULE Spec2Model ----
(***************************************************************************)
(* bevy_qcmd: a drop-down console for Bevy (src/src/lib.rs).               *)
(*                                                                         *)
(* The console is a set of systems the host scheduler runs once a frame.   *)
(* One frame is modelled as                                                *)
(*   BeginFrame           the host delivers the frame's input and time     *)
(*   ApplyStateTransition the StateTransition schedule                     *)
(*   NextStateReady, RunCmd, OnEnterFlush                                  *)
(*                        the OnEnter(CmdTrigger::Fired) schedule          *)
(*   ToggleOpen, ToggleClose, MoveConsole, TextInput, EndUpdate            *)
(*                        the Update schedule                              *)
(* Commands (insert_resource, run_system) are deferred: a system queues    *)
(* them and the schedule applies the queue when it ends.                   *)
(*                                                                         *)
(* The host is Bevy 0.13 (ButtonInput, init_state, app.world).  Of it the  *)
(* model keeps: apply_state_transition takes NextState and, only when the  *)
(* requested state differs from the current one, changes the state and     *)
(* runs its OnEnter schedule; State<S> is constant during Update; the      *)
(* character events of a frame are sent before the frame's schedules run;  *)
(* Events::update runs in some frames and not in others, so an event that  *)
(* is not drained is seen in its own frame and possibly in later ones.     *)
(*                                                                         *)
(* Spec explores commands, SpecReg the registry alone, SpecAnim the        *)
(* animation and the trigger, SpecInput typing, SpecKeys the keys pressed  *)
(* together, SpecLive the animation in an App that keeps running; they     *)
(* differ in the input the host delivers and share every action of the     *)
(* console.                                                                *)
(*                                                                         *)
(* Text is a sequence of one-character strings.  Offsets are in tenths of  *)
(* a percent and frame times in milliseconds, so that MOVE_SPEED (100 % a  *)
(* second) is one tenth of a percent a millisecond; f32 rounding is not    *)
(* modelled.                                                               *)
(***************************************************************************)
EXTENDS Integers, Sequences, FiniteSets, TLC

(***************************************************************************)
(* Bounds of the model                                                     *)
(***************************************************************************)
\* add_cmd calls of the application (the plugin's own one not counted) when
\* only the registry is explored, and when the console then runs
RegCmds == 3
RunCmds == 1
\* lines of transcript after which the user leaves the keyboard alone, when
\* commands are explored, when typing is, and when the animation and the
\* trigger are
CmdLines == 1
InputLines == 1
AnimLines == 2
\* character events waiting in Events<ReceivedCharacter>
MaxPending == 2

(***************************************************************************)
(* Program constants                                                       *)
(***************************************************************************)
\* -33.3 %, the offset of the closed panel, in tenths of a percent
ClosedTop == -333
\* 0 %, the offset of the open panel
OpenTop == 0
\* MOVE_SPEED = 100 % a second, in tenths of a percent a millisecond
MOVE_SPEED == 1

\* no NextState requested
None == "None"
\* Option<SystemId>::None; SystemIds are 1, 2, ...
NoId == 0

NL == "\n"
SP == " "

HelpName == <<"h", "e", "l", "p">>
NotFoundMsg == <<"C", "o", "m", "m", "a", "n", "d", " ", "n", "o", "t", " ", "f", "o", "u", "n", "d", ":", " ">>
NoMatchMsg == <<"N", "o", " ", "c", "o", "m", "m", "a", "n", "d", "s", " ", "s", "t", "a", "r", "t", " ", "w", "i", "t", "h", " ", "t", "h", "a", "t", ".", "\n">>
HelpHeader == <<"R", "e", "g", "i", "s", "t", "e", "r", "e", "d", " ", "c", "o", "m", "m", "a", "n", "d", "s", ":", "\n">>

(***************************************************************************)
(* Inputs                                                                  *)
(***************************************************************************)
KeyCodes == {"Enter", "Backspace", "Tab", "Backquote"}
\* char::is_control for the characters of the model
ControlChars == {"\r", "\t", "\n", "\\u{8}"}
Printable == {"h", "e", "l", "p", " "}
\* names the application registers commands under
Names == {<< >>, <<"h", "e">>, HelpName}

ConsoleStates == {"Closed", "AnimatingOpen", "AnimatingClosed", "Open"}

VARIABLES
    pc,          \* where the host is: "setup", "frame", "trans", "onenter", "update"
    map,         \* CommandMap: name -> SystemId
    nextId,      \* the next SystemId register_system hands out
    helpId,      \* the SystemId of the plugin's help system, 0 before build
    ret,         \* what the last add_cmd returned
    keysOrder,   \* the order HashMap::keys() iterates in
    cstate,      \* State<ConsoleState>
    nextConsole, \* NextState<ConsoleState>
    trigger,     \* State<CmdTrigger>
    nextTrigger, \* NextState<CmdTrigger>
    top,         \* Style.top of the panel
    input,       \* sections[1] of the input text
    out,         \* sections[0] of the output text
    args,        \* the CommandArgs resource
    evA, evB,    \* Events<ReceivedCharacter>: the older and the newer buffer
    kbd,         \* ButtonInput<KeyCode>::just_pressed of this frame
    delta,       \* Time<Real>::delta of this frame
    queue,       \* Commands queued in the running schedule
    ran,         \* systems of the running schedule that have run
    submitted,   \* history: the texts the Enter branch took
    dispatched,  \* history: the texts run_cmd ran on
    calls,       \* history: the callbacks run, with the CommandArgs they saw
    typed,       \* history: what the frames since typing was last disturbed
                 \* should have made of the input buffer
    began        \* history: the state the running frame began in

vars == <<pc, map, nextId, helpId, ret, keysOrder, cstate, nextConsole, trigger,
          nextTrigger, top, input, out, args, evA, evB, kbd, delta, queue, ran,
          submitted, dispatched, calls, typed, began>>

regVars == <<map, nextId, helpId, ret, keysOrder>>
uiVars == <<top, input, out>>
stateVars == <<cstate, nextConsole, trigger, nextTrigger>>
hostVars == <<kbd, delta>>
histVars == <<submitted, dispatched, calls, typed, began>>

(***************************************************************************)
(* Text                                                                    *)
(***************************************************************************)
IsPrefix(p, s) == Len(p) <= Len(s) /\ SubSeq(s, 1, Len(p)) = p

\* char::is_control
IsControl(c) == c \in ControlChars

\* Pop, were every character removed
PopAll(s) == << >>

\* String::pop
Pop(s) == IF s = << >> THEN s ELSE SubSeq(s, 1, Len(s) - 1)

\* FirstToken, were the text not split at all
FirstTokenWhole(s) == s

\* cmd.split(' ').next(): the text before the first space
RECURSIVE FirstToken(_)
FirstToken(s) ==
    IF s = << >> \/ Head(s) = SP THEN << >>
    ELSE <<Head(s)>> \o FirstToken(Tail(s))

\* PushChars, were each character put in front of the buffer
RECURSIVE PushCharsInFront(_, _)
PushCharsInFront(buf, evs) ==
    IF evs = << >> THEN buf
    ELSE PushCharsInFront(IF IsControl(Head(evs)) THEN buf ELSE <<Head(evs)>> \o buf, Tail(evs))

\* the characters of a drained event sequence that text_input keeps
RECURSIVE PushChars(_, _)
PushChars(buf, evs) ==
    IF evs = << >> THEN buf
    ELSE PushChars(IF IsControl(Head(evs)) THEN buf ELSE Append(buf, Head(evs)), Tail(evs))

\* ListMatching, were the test start.starts_with(cmd)
RECURSIVE ListMatchingSwapped(_, _)
ListMatchingSwapped(order, start) ==
    IF order = << >> THEN << >>
    ELSE (IF IsPrefix(Head(order), start) THEN Head(order) \o <<SP>> ELSE << >>)
         \o ListMatchingSwapped(Tail(order), start)

\* for cmd in map.keys() { if cmd.starts_with(start) { push cmd; push ' ' } }
RECURSIVE ListMatching(_, _)
ListMatching(order, start) ==
    IF order = << >> THEN << >>
    ELSE (IF IsPrefix(start, Head(order)) THEN Head(order) \o <<SP>> ELSE << >>)
         \o ListMatching(Tail(order), start)

NumLines(s) == Cardinality({i \in 1..Len(s) : s[i] = NL})

SeqsUpTo(S, n) == UNION {[1..k -> S] : k \in 0..n}

Perms(S) == {f \in [1..Cardinality(S) -> S] : \A i, j \in 1..Cardinality(S) : f[i] = f[j] => i = j}

(***************************************************************************)
(* Deferred commands                                                       *)
(***************************************************************************)
Cmd(r, v) == [res |-> r, val |-> v]

\* ListKeys, were the last key left out
RECURSIVE ListKeysButLast(_)
ListKeysButLast(order) ==
    IF Len(order) <= 1 THEN << >>
    ELSE Head(order) \o <<SP>> \o ListKeysButLast(Tail(order))

\* for cmd in map.keys() { push cmd; push ' ' }
RECURSIVE ListKeys(_)
ListKeys(order) ==
    IF order = << >> THEN << >> ELSE Head(order) \o <<SP>> \o ListKeys(Tail(order))

\* fn help: the header, then every key followed by a space, then a newline
Help(o, order) == o \o HelpHeader \o ListKeys(order) \o <<NL>>

\* one queued command applied to the world w
ApplyCmd(c, w) ==
    CASE c.res = "NextConsole" -> [w EXCEPT !.nextConsole = c.val]
      [] c.res = "NextTrigger" -> [w EXCEPT !.nextTrigger = c.val]
      [] c.res = "CommandArgs" -> [w EXCEPT !.args = c.val]
      [] c.res = "RunSystem" ->
            [w EXCEPT !.calls = Append(@, [id |-> c.val, args |-> w.args]),
                      !.out = IF c.val = helpId THEN Help(@, keysOrder) ELSE @]

\* the queue applied in the order the commands were queued
RECURSIVE ApplyQueue(_, _)
ApplyQueue(q, w) == IF q = << >> THEN w ELSE ApplyQueue(Tail(q), ApplyCmd(Head(q), w))

World == [nextConsole |-> nextConsole, nextTrigger |-> nextTrigger, args |-> args,
          out |-> out, calls |-> calls]

\* the end of a schedule: the queued commands take effect
Flush ==
    LET w == ApplyQueue(queue, World) IN
    /\ nextConsole' = w.nextConsole
    /\ nextTrigger' = w.nextTrigger
    /\ args' = w.args
    /\ out' = w.out
    /\ calls' = w.calls
    /\ queue' = << >>
    /\ ran' = {}

(***************************************************************************)
(* Setup: the application builds the App                                   *)
(***************************************************************************)
\* Insert, were it entry(k).or_insert(v): an existing handle stays
InsertKeepsOld(m, k, v) == [n \in DOMAIN m \cup {k} |-> IF n \in DOMAIN m THEN m[n] ELSE v]

\* HashMap::insert
Insert(m, k, v) == [n \in DOMAIN m \cup {k} |-> IF n = k THEN v ELSE m[n]]

\* what HashMap::insert returns
Previous(m, k) == IF k \in DOMAIN m THEN m[k] ELSE NoId

\* add_cmd calls the application has made
AppCmds == nextId - 1 - (IF helpId = NoId THEN 0 ELSE 1)

\* ConsolePlugin::add_cmd, called by the application
AddCmd(name) ==
    /\ pc = "setup"
    /\ ret' = Previous(map, name)
    /\ map' = Insert(map, name, nextId)
    /\ nextId' = nextId + 1
    /\ UNCHANGED <<pc, helpId, keysOrder, stateVars, uiVars, args, evA, evB, hostVars,
                   queue, ran, histVars>>

\* ConsolePlugin::build: the states and systems, and add_cmd(app, "help", help)
Build ==
    /\ pc = "setup"
    /\ helpId = NoId
    /\ ret' = Previous(map, HelpName)
    /\ map' = Insert(map, HelpName, nextId)
    /\ helpId' = nextId
    /\ nextId' = nextId + 1
    /\ UNCHANGED <<pc, keysOrder, stateVars, uiVars, args, evA, evB, hostVars,
                   queue, ran, histVars>>

\* App::run: the Startup schedule (setup_ui), then frames; the map is read
\* from now on, and keys() iterates it in one arbitrary order
StartRun(order) ==
    /\ pc = "setup"
    /\ helpId # NoId
    /\ keysOrder' = order
    /\ top' = ClosedTop
    /\ input' = << >>
    /\ out' = << >>
    /\ pc' = "frame"
    /\ UNCHANGED <<map, nextId, helpId, ret, stateVars, args, evA, evB, hostVars,
                   queue, ran, histVars>>

(***************************************************************************)
(* The host: input and the StateTransition schedule                        *)
(***************************************************************************)
\* The history of undisturbed typing.  A frame is undisturbed when the console
\* is Open in it, its characters are not control characters and none of
\* Enter, Backspace and Tab is pressed (on, buf); strictly so when Backquote
\* is not pressed either and the first such frame began with no character
\* event waiting (son, sbuf).  buf and sbuf are the buffer the first such
\* frame began with, followed by the characters received since.
\* earlyA and earlyB tell, for each event of events_a and events_b, whether
\* it was received in a frame in which the console is not Open; the events
\* are either all removed within a frame (clear, drain) or all kept.
Typed(keys, chars, upd) ==
    LET open == (IF nextConsole # None THEN nextConsole ELSE cstate) = "Open"
        keptA == IF evA \o evB = << >> THEN << >> ELSE typed.earlyA
        keptB == IF evA \o evB = << >> THEN << >> ELSE typed.earlyB
        now == [i \in 1..Len(chars) |-> ~open]
        plain == \A i \in 1..Len(chars) : chars[i] \notin ControlChars
        on == open /\ plain /\ keys \cap {"Enter", "Backspace", "Tab"} = {}
        son == on /\ "Backquote" \notin keys /\ (typed.son \/ evA \o evB = << >>)
    IN  [on |-> on,
         buf |-> IF on THEN (IF typed.on THEN typed.buf ELSE input) \o chars ELSE << >>,
         son |-> son,
         sbuf |-> IF son THEN (IF typed.son THEN typed.sbuf ELSE input) \o chars ELSE << >>,
         earlyA |-> IF upd THEN keptB \o now ELSE keptA,
         earlyB |-> IF upd THEN << >> ELSE keptB \o now]

\* no frame is running
NoFrame ==
    [cstate |-> "Closed", nextConsole |-> None, trigger |-> "Ready", nextTrigger |-> None,
     top |-> ClosedTop, input |-> << >>, out |-> << >>, args |-> << >>, evA |-> << >>,
     evB |-> << >>, kbd |-> {}, delta |-> 0]

\* A frame begins: the window's character events are sent, Events::update
\* may run (upd), the keyboard and the clock are read
BeginFrame(keys, chars, dt, upd) ==
    /\ pc = "frame"
    /\ evA' = IF upd THEN evB \o chars ELSE evA
    /\ evB' = IF upd THEN << >> ELSE evB \o chars
    /\ kbd' = keys
    /\ delta' = dt
    /\ typed' = Typed(keys, chars, upd)
    /\ began' = [cstate |-> cstate, nextConsole |-> nextConsole, trigger |-> trigger,
                 nextTrigger |-> nextTrigger, top |-> top, input |-> input, out |-> out,
                 args |-> args, evA |-> evA', evB |-> evB', kbd |-> keys, delta |-> dt]
    /\ pc' = "trans"
    /\ UNCHANGED <<regVars, stateVars, uiVars, args, queue, ran, submitted, dispatched, calls>>

\* apply_state_transition: the state after NextState is taken
Transition(cur, next) == IF next # None THEN next ELSE cur

\* apply_state_transition: whether the OnEnter schedule of `to` runs
Enters(cur, next, to) == next # None /\ next # cur /\ next = to

\* The StateTransition schedule: apply_state_transition of ConsoleState and
\* of CmdTrigger; entering Fired runs the OnEnter(CmdTrigger::Fired) schedule
ApplyStateTransition ==
    /\ pc = "trans"
    /\ cstate' = Transition(cstate, nextConsole)
    /\ nextConsole' = None
    /\ trigger' = Transition(trigger, nextTrigger)
    /\ nextTrigger' = None
    /\ pc' = IF Enters(trigger, nextTrigger, "Fired") THEN "onenter" ELSE "update"
    /\ UNCHANGED <<regVars, uiVars, args, evA, evB, hostVars, queue, ran, histVars>>

(***************************************************************************)
(* The OnEnter(CmdTrigger::Fired) schedule: (next_state(Ready), run_cmd)   *)
(***************************************************************************)
\* workarounds::next_state(s), a function of another crate: a system that
\* requests the state s
NextState(r, s) == Append(queue, Cmd(r, s))

NextStateReady ==
    /\ pc = "onenter"
    /\ "next_state_ready" \notin ran
    /\ queue' = NextState("NextTrigger", "Ready")
    /\ ran' = ran \cup {"next_state_ready"}
    /\ UNCHANGED <<pc, regVars, stateVars, uiVars, args, evA, evB, hostVars, histVars>>

\* RunFound, were the system not queued
RunFoundNotQueued(call) ==
    /\ queue' = queue
    /\ out' = out

\* run_cmd, the registered branch: commands.run_system(*id)
RunFound(call) ==
    /\ queue' = Append(queue, Cmd("RunSystem", map[call]))
    /\ out' = out

\* RunNotFound, were the report to replace the transcript
RunNotFoundReplaces(call) ==
    /\ queue' = queue
    /\ out' = NotFoundMsg \o call \o <<NL>>
\* run_cmd, the other branch
RunNotFound(call) ==
    /\ queue' = queue
    /\ out' = out \o NotFoundMsg \o call \o <<NL>>

RunCmd ==
    /\ pc = "onenter"
    /\ "run_cmd" \notin ran
    /\ LET call == FirstToken(args) IN
         IF call \in DOMAIN map THEN RunFound(call) ELSE RunNotFound(call)
    /\ dispatched' = Append(dispatched, args)
    /\ ran' = ran \cup {"run_cmd"}
    /\ UNCHANGED <<pc, regVars, stateVars, top, input, args, evA, evB, hostVars,
                   submitted, calls, typed, began>>

\* the end of the OnEnter schedule
OnEnterFlush ==
    /\ pc = "onenter"
    /\ ran = {"next_state_ready", "run_cmd"}
    /\ Flush
    /\ pc' = "update"
    /\ UNCHANGED <<regVars, cstate, trigger, top, input, evA, evB, hostVars,
                   submitted, dispatched, typed, began>>

(***************************************************************************)
(* The Update schedule                                                     *)
(***************************************************************************)
\* CondToggleOpen, were the state only required not to be Open
CondToggleOpenNotOpen == "Backquote" \in kbd /\ cstate # "Open"
\* run_if(input_just_pressed(Backquote).and_then(in_state(Closed)))
CondToggleOpen == "Backquote" \in kbd /\ cstate = "Closed"
\* CondToggleClose, were the state only required not to be Closed
CondToggleCloseNotClosed == "Backquote" \in kbd /\ cstate # "Closed"

\* run_if(input_just_pressed(Backquote).and_then(in_state(Open)))
CondToggleClose == "Backquote" \in kbd /\ cstate = "Open"
\* run_if(in_state(AnimatingClosed).or_else(in_state(AnimatingOpen)))
CondMoveConsole == cstate \in {"AnimatingClosed", "AnimatingOpen"}
\* run_if(in_state(Open))
CondTextInput == cstate = "Open"

\* next_state(ConsoleState::AnimatingOpen)
ToggleOpen ==
    /\ pc = "update"
    /\ "toggle_open" \notin ran
    /\ CondToggleOpen
    /\ queue' = NextState("NextConsole", "AnimatingOpen")
    /\ ran' = ran \cup {"toggle_open"}
    /\ UNCHANGED <<pc, regVars, stateVars, uiVars, args, evA, evB, hostVars, histVars>>

\* next_state(ConsoleState::AnimatingClosed)
ToggleClose ==
    /\ pc = "update"
    /\ "toggle_close" \notin ran
    /\ CondToggleClose
    /\ queue' = NextState("NextConsole", "AnimatingClosed")
    /\ ran' = ran \cup {"toggle_close"}
    /\ UNCHANGED <<pc, regVars, stateVars, uiVars, args, evA, evB, hostVars, histVars>>

\* MovedPos, were the panel moved the same way in both animations
MovedPosOneWay(t, st, dt) == t + MOVE_SPEED * dt
\* MovedPos, were the panel left where it is
MovedPosStill(t, st, dt) == t
\* move_console: pos after `pos += match **state {...}`
MovedPos(t, st, dt) ==
    t + (CASE st = "AnimatingOpen" -> MOVE_SPEED * dt
           [] st = "AnimatingClosed" -> -(MOVE_SPEED * dt)
           [] OTHER -> 0)

\* move_console: the terminal state the second match requests, or None
Arrived(st, pos) ==
    CASE st = "AnimatingClosed" /\ pos <= ClosedTop -> "Closed"
      [] st = "AnimatingOpen" /\ pos >= OpenTop -> "Open"
      [] OTHER -> None

\* FinalTop, were the offset not clamped at the bound
FinalTopUnclamped(st, pos) == pos

\* move_console: the offset the panel is left at
FinalTop(st, pos) ==
    CASE Arrived(st, pos) = "Closed" -> ClosedTop
      [] Arrived(st, pos) = "Open" -> OpenTop
      [] OTHER -> pos

\* MoveConsole, were the character events not cleared on arriving at Open
MoveConsoleKeepsEvents ==
    /\ pc = "update"
    /\ "move_console" \notin ran
    /\ CondMoveConsole
    /\ LET pos == MovedPos(top, cstate, delta)
           to == Arrived(cstate, pos) IN
         /\ top' = FinalTop(cstate, pos)
         /\ queue' = IF to = None THEN queue ELSE Append(queue, Cmd("NextConsole", to))
    /\ ran' = ran \cup {"move_console"}
    /\ UNCHANGED <<pc, regVars, stateVars, input, out, args, evA, evB, hostVars, histVars>>

\* move_console: move the panel, clamp it and request the terminal state on
\* arriving; on arriving at Open, clear the character events
MoveConsole ==
    /\ pc = "update"
    /\ "move_console" \notin ran
    /\ CondMoveConsole
    /\ LET pos == MovedPos(top, cstate, delta)
           to == Arrived(cstate, pos) IN
         /\ top' = FinalTop(cstate, pos)
         /\ queue' = IF to = None THEN queue ELSE Append(queue, Cmd("NextConsole", to))
         /\ evA' = IF to = "Open" THEN << >> ELSE evA
         /\ evB' = IF to = "Open" THEN << >> ELSE evB
    /\ ran' = ran \cup {"move_console"}
    /\ UNCHANGED <<pc, regVars, stateVars, input, out, args, hostVars, histVars>>

\* EnterBranch, were the buffer cloned and not taken
EnterBranchKeepsBuffer ==
    /\ input' = input
    /\ out' = out \o input \o <<NL>>
    /\ queue' = queue \o <<Cmd("CommandArgs", input), Cmd("NextTrigger", "Fired")>>
    /\ submitted' = Append(submitted, input)
    /\ UNCHANGED <<evA, evB>>
\* text_input, Enter: take the buffer, echo it, publish it, request Fired
EnterBranch ==
    /\ input' = << >>
    /\ out' = out \o input \o <<NL>>
    /\ queue' = queue \o <<Cmd("CommandArgs", input), Cmd("NextTrigger", "Fired")>>
    /\ submitted' = Append(submitted, input)
    /\ UNCHANGED <<evA, evB>>

\* text_input, Backspace
BackspaceBranch ==
    /\ input' = Pop(input)
    /\ UNCHANGED <<out, queue, submitted, evA, evB>>

\* text_input, Tab: what is pushed to the transcript
TabListing(order, start) ==
    IF ListMatching(order, start) # << >>
    THEN ListMatching(order, start) \o <<NL>>
    ELSE NoMatchMsg

TabBranch ==
    /\ out' = out \o TabListing(keysOrder, input)
    /\ UNCHANGED <<input, queue, submitted, evA, evB>>

\* text_input, otherwise: drain the character events into the buffer
CharBranch ==
    /\ input' = PushChars(input, evA \o evB)
    /\ evA' = << >>
    /\ evB' = << >>
    /\ UNCHANGED <<out, queue, submitted>>

\* TextInput, were Backspace tested before Enter
TextInputBackspaceFirst ==
    /\ pc = "update"
    /\ "text_input" \notin ran
    /\ CondTextInput
    /\ IF "Backspace" \in kbd THEN BackspaceBranch
       ELSE IF "Enter" \in kbd THEN EnterBranch
       ELSE IF "Tab" \in kbd THEN TabBranch
       ELSE IF "Backquote" \notin kbd THEN CharBranch
       ELSE UNCHANGED <<input, out, queue, submitted, evA, evB>>
    /\ ran' = ran \cup {"text_input"}
    /\ UNCHANGED <<pc, regVars, stateVars, top, args, hostVars, dispatched, calls, typed, began>>

\* text_input: the first branch whose key was just pressed
TextInput ==
    /\ pc = "update"
    /\ "text_input" \notin ran
    /\ CondTextInput
    /\ IF "Enter" \in kbd THEN EnterBranch
       ELSE IF "Backspace" \in kbd THEN BackspaceBranch
       ELSE IF "Tab" \in kbd THEN TabBranch
       ELSE IF "Backquote" \notin kbd THEN CharBranch
       ELSE UNCHANGED <<input, out, queue, submitted, evA, evB>>
    /\ ran' = ran \cup {"text_input"}
    /\ UNCHANGED <<pc, regVars, stateVars, top, args, hostVars, dispatched, calls, typed, began>>

\* the systems of Update whose run condition holds in this frame
Runnable ==
    (IF CondToggleOpen THEN {"toggle_open"} ELSE {})
    \cup (IF CondToggleClose THEN {"toggle_close"} ELSE {})
    \cup (IF CondMoveConsole THEN {"move_console"} ELSE {})
    \cup (IF CondTextInput THEN {"text_input"} ELSE {})

\* EndUpdate, were the schedule to end before every system has run
EndUpdateEarly ==
    /\ pc = "update"
    /\ ran \subseteq Runnable
    /\ Flush
    /\ kbd' = {}
    /\ delta' = 0
    /\ began' = NoFrame
    /\ pc' = "frame"
    /\ UNCHANGED <<regVars, cstate, trigger, top, input, evA, evB, submitted, dispatched,
                   typed>>
\* the end of the Update schedule, and of the frame
EndUpdate ==
    /\ pc = "update"
    /\ ran = Runnable
    /\ Flush
    /\ kbd' = {}
    /\ delta' = 0
    /\ began' = NoFrame
    /\ pc' = "frame"
    /\ UNCHANGED <<regVars, cstate, trigger, top, input, evA, evB, submitted, dispatched,
                   typed>>

(***************************************************************************)
(* Specifications                                                          *)
(***************************************************************************)
Init ==
    /\ pc = "setup"
    /\ map = << >>
    /\ nextId = 1
    /\ helpId = NoId
    /\ ret = NoId
    /\ keysOrder = << >>
    /\ cstate = "Closed"
    /\ nextConsole = None
    /\ trigger = "Ready"
    /\ nextTrigger = None
    /\ top = ClosedTop
    /\ input = << >>
    /\ out = << >>
    /\ args = << >>
    /\ evA = << >>
    /\ evB = << >>
    /\ kbd = {}
    /\ delta = 0
    /\ queue = << >>
    /\ ran = {}
    /\ submitted = << >>
    /\ dispatched = << >>
    /\ calls = << >>
    /\ typed = [on |-> FALSE, buf |-> << >>, son |-> FALSE, sbuf |-> << >>,
                earlyA |-> << >>, earlyB |-> << >>]
    /\ began = NoFrame

\* The application registers up to max commands under the names of N
Register(N, max) == \E name \in N : AppCmds < max /\ AddCmd(name)

Start == \E order \in Perms(DOMAIN map) : StartRun(order)

\* the text the waiting events would make of the input buffer is one the
\* user types towards
Typable(lines, buf, evs) == \E l \in lines : IsPrefix(PushChars(buf, evs), l)

\* The host's input in an environment e: the keys, the characters of a frame,
\* the frame times, whether Events::update runs, the lines typed towards, and
\* the lines of transcript after which the keyboard is left alone
Input(e) ==
    LET full == NumLines(out) >= e.maxLines
        kept(upd) == IF upd THEN evB ELSE evA \o evB
    IN  \E chars \in e.chars, upd \in e.upd :
            /\ full => chars = << >>
            /\ Len(kept(upd)) + Len(chars) <= MaxPending
            /\ chars # << >> => Typable(e.lines, input, kept(upd) \o chars)
            /\ \E keys \in e.keys, dt \in e.deltas :
                    /\ full => keys = {}
                    /\ BeginFrame(keys, chars, dt, upd)

\* the systems the plugin registers, and the ends of their schedules
Systems ==
    \/ ApplyStateTransition
    \/ NextStateReady
    \/ RunCmd
    \/ OnEnterFlush
    \/ ToggleOpen
    \/ ToggleClose
    \/ MoveConsole
    \/ TextInput
    \/ EndUpdate

\* Commands: a key or none a frame, a character or none a frame, the panel
\* opens and closes in one frame
EnvCmd ==
    [keys |-> {{}, {"Enter"}, {"Backspace"}, {"Tab"}, {"Backquote"}},
     chars |-> SeqsUpTo(Printable, 1),
     deltas |-> {400},
     upd |-> {TRUE},
     maxLines |-> CmdLines,
     lines |-> {HelpName, <<"h", "e", " ">>, <<" ">>}]

Next ==
    \/ Register(Names, RunCmds)
    \/ Build
    \/ Start
    \/ Input(EnvCmd)
    \/ Systems

Spec == Init /\ [][Next]_vars

\* The registry alone: the application and the plugin register commands
NextReg ==
    \/ Register(Names, RegCmds)
    \/ Build

SpecReg == Init /\ [][NextReg]_vars

\* The animation and the trigger: the toggle key, Enter and Tab on an empty
\* buffer, several frame times
EnvAnim ==
    [keys |-> SUBSET {"Backquote", "Enter", "Tab"},
     chars |-> {<< >>},
     deltas |-> {0, 100, 133, 200},
     upd |-> {TRUE},
     maxLines |-> AnimLines,
     lines |-> {<< >>}]

NextAnim ==
    \/ Build
    \/ Start
    \/ Input(EnvAnim)
    \/ Systems

SpecAnim == Init /\ [][NextAnim]_vars

\* Typing: a key or none a frame, up to two characters a frame,
\* Events::update in some frames only
EnvInput ==
    [keys |-> {{}} \cup {{k} : k \in KeyCodes},
     chars |-> SeqsUpTo({"h", "e", "l", "\r"}, 2),
     deltas |-> {400},
     upd |-> BOOLEAN,
     maxLines |-> InputLines,
     lines |-> {<<"h", "e", "l">>, <<"e", "h">>}]

NextInput ==
    \/ Build
    \/ Start
    \/ Input(EnvInput)
    \/ Systems

SpecInput == Init /\ [][NextInput]_vars

\* The keys: any of Enter, Backspace and Tab together, or the toggle key, and
\* one character a frame at most, which may be the character the window
\* sends for Enter, Tab or Backspace
EnvKeys ==
    [keys |-> {{"Backquote"}} \cup SUBSET {"Enter", "Backspace", "Tab"},
     chars |-> SeqsUpTo({"h", "\r", "\t", "\\u{8}"}, 1),
     deltas |-> {400},
     upd |-> BOOLEAN,
     maxLines |-> InputLines,
     lines |-> {<<"h", "h">>}]

NextKeys ==
    \/ Build
    \/ Start
    \/ Input(EnvKeys)
    \/ Systems

SpecKeys == Init /\ [][NextKeys]_vars

\* The animation in an App that keeps running: App::run runs frame after
\* frame, and a schedule runs every system whose condition holds
EnvLive ==
    [keys |-> SUBSET {"Backquote", "Enter", "Tab"},
     chars |-> {<< >>},
     deltas |-> {0, 100, 200},
     upd |-> {TRUE},
     maxLines |-> AnimLines,
     lines |-> {<< >>}]

NextLive ==
    \/ Build
    \/ Start
    \/ Input(EnvLive)
    \/ Systems

SpecLive == Init /\ [][NextLive]_vars /\ WF_vars(NextLive)

(***************************************************************************)
(* Claims                                                                  *)
(***************************************************************************)
Animating == {"AnimatingOpen", "AnimatingClosed"}

\* the terminal state an animation ends in
TerminalOf(st) == IF st = "AnimatingOpen" THEN "Open" ELSE "Closed"

\* the console states the commands of a queue request
Requested(q) == {q[i].val : i \in {j \in 1..Len(q) : q[j].res = "NextConsole"}}

\* C1: every text the Enter branch took in an earlier frame has been
\* dispatched exactly once by the time the systems of Update run: run_cmd has
\* run on the submitted texts, each once, in order.
C1_DispatchedExactlyOnce ==
    (pc = "update" /\ "text_input" \notin ran) => dispatched = submitted

\* C2: when the Enter branch of text_input is about to run, CmdTrigger is
\* Ready and no requested change of it is waiting to be applied.
C2_EnterOnlyWhenReady ==
    (pc = "update" /\ "text_input" \notin ran /\ CondTextInput /\ "Enter" \in kbd)
        => (trigger = "Ready" /\ nextTrigger = None)

\* C3: a new console state is requested by the toggle key only in a terminal
\* state (AnimatingOpen from Closed, AnimatingClosed from Open); while the
\* state is AnimatingOpen or AnimatingClosed no step, with or without the key
\* pressed, requests or enters anything but the terminal state of that
\* animation, and the panel never moves against its direction.
C3_ToggleOnlyFromTerminal ==
    [][/\ \A st \in Requested(queue') \ Requested(queue) :
            st \in Animating =>
                /\ "Backquote" \in kbd
                /\ <<cstate, st>> \in {<<"Closed", "AnimatingOpen">>,
                                       <<"Open", "AnimatingClosed">>}
       /\ cstate \in Animating =>
            /\ cstate' \in {cstate, TerminalOf(cstate)}
            /\ Requested(queue') \subseteq {TerminalOf(cstate)}
            /\ nextConsole' \in {None, TerminalOf(cstate)}
            /\ IF cstate = "AnimatingOpen" THEN top' >= top ELSE top' <= top]_vars

\* C3 witness: the toggle key is pressed in a frame of an opening animation,
\* and the panel has moved on towards the open position.
C3_Witness ==
    /\ pc = "update"
    /\ cstate = "AnimatingOpen"
    /\ "Backquote" \in kbd
    /\ "move_console" \in ran
    /\ top > ClosedTop
    /\ top < OpenTop

Last(s) == s[Len(s)]

IsSuffix(p, s) == Len(p) <= Len(s) /\ SubSeq(s, Len(s) - Len(p) + 1, Len(s)) = p

\* the token of a text: its longest prefix without a space
TokenOf(s) ==
    CHOOSE t \in {SubSeq(s, 1, k) : k \in 0..Len(s)} :
        /\ \A i \in 1..Len(t) : t[i] # SP
        /\ Len(t) = Len(s) \/ s[Len(t) + 1] = SP

AllSpaces(s) == \A i \in 1..Len(s) : s[i] = SP

\* the names of a sequence, each followed by a space
RECURSIVE Spaced(_)
Spaced(names) ==
    IF names = << >> THEN << >> ELSE Head(names) \o <<SP>> \o Spaced(Tail(names))

\* the systems a queue asks to run
RunSystems(q) == SelectSeq(q, LAMBDA c : c.res = "RunSystem")

\* a step of run_cmd
RunCmdStep == dispatched' # dispatched

\* the step that ends the OnEnter(CmdTrigger::Fired) schedule
DispatchEnds == pc = "onenter" /\ pc' = "update"

\* C4: run_cmd runs on the submitted text and looks the text before its first
\* space up.  If that token is registered, exactly the system registered
\* under it is queued and then invoked, once, with the submitted text as
\* CommandArgs, and run_cmd appends nothing; if it is not, "Command not
\* found: <token>\n" is appended and no callback is invoked.
C4_Dispatch ==
    [][/\ RunCmdStep =>
            LET tok == TokenOf(args) IN
            /\ dispatched' = Append(dispatched, args)
            /\ args = submitted[Len(dispatched')]
            /\ IF tok \in DOMAIN map
               THEN /\ out' = out
                    /\ RunSystems(queue') = Append(RunSystems(queue), Cmd("RunSystem", map[tok]))
               ELSE /\ out' = out \o NotFoundMsg \o tok \o <<NL>>
                    /\ RunSystems(queue') = RunSystems(queue)
       /\ calls' # calls => DispatchEnds
       /\ DispatchEnds =>
            LET text == Last(dispatched)
                tok == TokenOf(text) IN
            IF tok \in DOMAIN map
            THEN /\ calls' = Append(calls, [id |-> map[tok], args |-> text])
                 /\ map[tok] # helpId => out' = out
            ELSE calls' = calls /\ out' = out]_vars

\* C4 witness: the callback registered under "he" has run for the text "he "
C4_Witness ==
    \E i \in 1..Len(calls) :
        /\ calls[i].id # helpId
        /\ <<"h", "e">> \in DOMAIN map
        /\ calls[i].id = map[<<"h", "e">>]
        /\ calls[i].args = <<"h", "e", " ">>

\* what a dispatch of "help" appends: every registered name followed by a
\* space, in some order, and a newline at the end
HelpListed ==
    /\ IsPrefix(out, out')
    /\ \E order \in Perms(DOMAIN map) : IsSuffix(Spaced(order) \o <<NL>>, out')
    /\ Len(out') - Len(out) >= Len(Spaced(keysOrder)) + 1

C7_AddCmd ==
    [][nextId' # nextId =>
        \E name \in Names :
            /\ ret' = (IF name \in DOMAIN map THEN map[name] ELSE NoId)
            /\ DOMAIN map' = DOMAIN map \cup {name}
            /\ map'[name] = nextId
            /\ \A n \in DOMAIN map : map[n] # nextId
            /\ \A n \in DOMAIN map \ {name} : map'[n] = map[n]]_vars

\* C7 witness: a registration has replaced a handle, others are registered
C7_Witness ==
    /\ ret # NoId
    /\ Cardinality(DOMAIN map) >= 2
    /\ \E n \in DOMAIN map : map[n] = nextId - 1 /\ map[n] > ret

\* a step of text_input that takes the Tab branch
TabStep ==
    /\ "text_input" \notin ran
    /\ "text_input" \in ran'
    /\ "Tab" \in kbd
    /\ "Enter" \notin kbd
    /\ "Backspace" \notin kbd

\* the registered names that start with the text
Matching(start) ==
    {n \in DOMAIN map : Len(start) <= Len(n) /\ \A i \in 1..Len(start) : n[i] = start[i]}

\* C8: Tab appends every registered name that starts with the input buffer,
\* each followed by a space, in some order, then a newline; when none does it
\* appends "No commands start with that.\n"; the buffer stays as it was.
C8_TabLists ==
    [][TabStep =>
        /\ input' = input
        /\ IF Matching(input) = {}
           THEN out' = out \o NoMatchMsg
           ELSE \E order \in Perms(Matching(input)) :
                    out' = out \o Spaced(order) \o <<NL>>]_vars

\* C8 witness: Tab on "he" has listed "he" and "help", and not ""
C8_Witness ==
    /\ pc = "update"
    /\ "text_input" \in ran
    /\ "Tab" \in kbd
    /\ input = <<"h", "e">>
    /\ DOMAIN map = {<<"h", "e">>, HelpName}
    /\ out = Spaced(keysOrder) \o <<NL>>

\* C9 as stated: at the end of every frame of a run of frames in which the
\* console is Open and no Enter, Backspace or Tab is pressed, the input
\* buffer is what it was when the run began followed by the characters
\* received since, in the order received.
C9_TypedInOrder == (pc = "frame" /\ typed.on) => input = typed.buf

\* C9 amended: it is so when Backquote is not pressed either and the run
\* began with no character event waiting from an earlier frame: text_input
\* drains nothing in a frame in which Backquote is just pressed, and an event
\* left by a frame that did not drain may still arrive in the next.
C9_TypedInOrderUndisturbed == (pc = "frame" /\ typed.son) => input = typed.sbuf

\* C9 witness: three characters received over more than one frame are the
\* input buffer
C9_Witness ==
    /\ pc = "frame"
    /\ typed.son
    /\ input = <<"h", "e", "l">>
    /\ cstate = "Open"
    /\ evA = << >>
    /\ evB = << >>

\* C10: the panel's top offset is within [-33.3 %, 0 %] in every state.
C10_OffsetInRange == ClosedTop <= top /\ top <= OpenTop

\* C10 witness: a closing step went past the bound and was clamped to it
C10_Witness ==
    /\ pc = "update"
    /\ cstate = "AnimatingClosed"
    /\ "move_console" \in ran
    /\ delta = 200
    /\ top = ClosedTop
    /\ Requested(queue) = {"Closed"}

\* a step of move_console
MoveStep == pc = "update" /\ "move_console" \notin ran /\ "move_console" \in ran'

\* the bound an animation moves the panel to
BoundOf(st) == IF st = "AnimatingOpen" THEN OpenTop ELSE ClosedTop

\* C11: a step of move_console moves the offset by the speed (100 %/s, one
\* tenth of a percent a millisecond) times the frame time towards the
\* target.  If the result has not reached the bound, the offset is that
\* result, no state is requested and the state stays the animating one; if
\* it has reached or passed the bound, the offset is the bound (-33.3 % or
\* 0 %) and the terminal state is requested and entered by the next frame.
C11_AnimationStep ==
    [][/\ MoveStep =>
            LET moved == IF cstate = "AnimatingOpen" THEN top + delta ELSE top - delta
                reached == IF cstate = "AnimatingOpen" THEN moved >= 0 ELSE moved <= -333
            IN  /\ cstate \in Animating
                /\ ~reached => top' = moved /\ Requested(queue') = {}
                /\ reached => /\ top' = BoundOf(cstate)
                              /\ Requested(queue') = {TerminalOf(cstate)}
       /\ (pc = "update" /\ pc' = "frame" /\ cstate \in Animating) =>
            nextConsole' = IF top = BoundOf(cstate) THEN TerminalOf(cstate) ELSE None
       /\ (pc = "trans" /\ cstate \in Animating) =>
            cstate' = IF top = BoundOf(cstate) THEN TerminalOf(cstate) ELSE cstate]_vars

\* C11 witness: a closing step of 0.2 s has moved the panel from -10.0 % to
\* -30.0 %, and no state is requested
C11_Witness ==
    /\ pc = "update"
    /\ cstate = "AnimatingClosed"
    /\ "move_console" \in ran
    /\ delta = 200
    /\ top = -300
    /\ Requested(queue) = {}

\* an opening step has reached the bound exactly
C11_WitnessExact ==
    /\ pc = "update"
    /\ cstate = "AnimatingOpen"
    /\ "move_console" \in ran
    /\ delta = 133
    /\ top = OpenTop
    /\ Requested(queue) = {"Open"}

\* a step of text_input
TextInputStep == pc = "update" /\ "text_input" \notin ran /\ "text_input" \in ran'

\* C12: the Backspace branch of text_input (Backspace just pressed, Enter
\* not) removes the last character of the input buffer and nothing else of
\* it; on an empty buffer the buffer stays empty; the transcript, the trigger
\* and the requests waiting are left as they were.
C12_Backspace ==
    [][(TextInputStep /\ "Backspace" \in kbd /\ "Enter" \notin kbd) =>
            /\ input = << >> => input' = << >>
            /\ input # << >> => input = Append(input', Last(input))
            /\ out' = out
            /\ trigger' = trigger
            /\ nextTrigger' = nextTrigger
            /\ queue' = queue
            /\ args' = args]_vars

\* C12 witness: the Backspace branch has run and left a character, the
\* first of the two the buffer held
C12_Witness ==
    /\ pc = "update"
    /\ cstate = "Open"
    /\ "text_input" \in ran
    /\ kbd = {"Backspace"}
    /\ input = <<"h">>

\* the Backspace branch has run on an empty buffer
C12_WitnessEmpty ==
    /\ pc = "update"
    /\ cstate = "Open"
    /\ "text_input" \in ran
    /\ kbd = {"Backspace"}
    /\ input = << >>

\* C13: CmdTrigger is reset to Ready right after the dispatch it fired, so
\* it never stays Fired: whenever the trigger is Fired while the systems of
\* Update run, the OnEnter(Fired) schedule has run in this frame and its
\* request of Ready is waiting to be applied.
C13_FiredIsReset ==
    (pc = "update" /\ trigger = "Fired") => nextTrigger = "Ready"

\* C14: the Enter branch of text_input takes the whole input buffer, leaving
\* it empty, pushes that text and a newline to the transcript, and queues
\* the text as CommandArgs and the request of CmdTrigger Fired; at the end of
\* the frame CommandArgs is that text and Fired is the requested state; no
\* step of the Update schedule is a dispatch, and the next dispatch reads
\* that text.
C14_Enter ==
    [][/\ (TextInputStep /\ "Enter" \in kbd) =>
            /\ input' = << >>
            /\ out' = out \o input \o <<"\n">>
            /\ queue' = queue \o <<[res |-> "CommandArgs", val |-> input],
                                   [res |-> "NextTrigger", val |-> "Fired"]>>
            /\ submitted' = Append(submitted, input)
            /\ args' = args
            /\ nextTrigger' = nextTrigger
       /\ (pc = "update" /\ pc' = "frame" /\ "text_input" \in ran /\ "Enter" \in kbd) =>
            /\ args' = Last(submitted)
            /\ nextTrigger' = "Fired"
       /\ pc = "update" => dispatched' = dispatched
       /\ RunCmdStep =>
            /\ submitted # << >>
            /\ args = Last(submitted)
            /\ dispatched' = Append(dispatched, args)]_vars

\* C14 witness: the text "hh" was taken by the Enter branch in one frame
\* and read by run_cmd in the next
C14_Witness ==
    /\ pc = "update"
    /\ submitted = <<(<<"h", "h">>)>>
    /\ dispatched = submitted
    /\ input = << >>
    /\ IsPrefix(<<"h", "h", "\n">>, out)

\* whether one of the events marked is an early one
Early(marks) == \E i \in 1..Len(marks) : marks[i]

\* C15: text_input runs only in frames in which ConsoleState is Open and
\* only it changes the input buffer; no character event received in a frame
\* in which the state is Closed, AnimatingOpen or AnimatingClosed is still
\* in Events<ReceivedCharacter> in a frame in which the state is Open, so
\* none is ever drained into the buffer.
C15_NoLeak ==
    [][/\ input' # input => TextInputStep
       /\ TextInputStep => cstate = "Open"
       /\ (pc = "update" /\ cstate = "Open") =>
            (evA \o evB = << >> \/ ~Early(typed.earlyA \o typed.earlyB))]_vars

\* C15 witness: the opening animation arrives in a frame that began with a
\* character event received while the console was not Open, and has cleared
\* the events
C15_Witness ==
    /\ pc = "update"
    /\ cstate = "AnimatingOpen"
    /\ "move_console" \in ran
    /\ Requested(queue) = {"Open"}
    /\ Early(typed.earlyA \o typed.earlyB)
    /\ evA \o evB = << >>

\* the characters the window sends for the Enter, Tab and Backspace keys
KeyChars == {"\r", "\t", "\\u{8}"}

\* C16: text_input does one thing a frame, the first of: Enter's submission
\* if Enter is just pressed; Backspace's removal if Backspace is; Tab's
\* listing if Tab is; the draining of the character events if Backquote is
\* not just pressed; nothing.  What the other keys pressed would do does not
\* happen.  The characters of Enter, Tab and Backspace are never in the
\* input buffer.
C16_OneActionByPriority ==
    [][/\ TextInputStep =>
            LET drained == evA' \o evB' = << >> /\ IsPrefix(input, input')
                kept == evA' = evA /\ evB' = evB
                quiet == out' = out /\ queue' = queue
            IN  IF "Enter" \in kbd
                THEN /\ input' = << >>
                     /\ out' = out \o input \o <<"\n">>
                     /\ Len(queue') = Len(queue) + 2
                     /\ kept
                ELSE IF "Backspace" \in kbd
                THEN /\ Len(input') = IF input = << >> THEN 0 ELSE Len(input) - 1
                     /\ IsPrefix(input', input)
                     /\ quiet /\ kept
                ELSE IF "Tab" \in kbd
                THEN /\ input' = input
                     /\ IsPrefix(out, out') /\ out' # out
                     /\ queue' = queue /\ kept
                ELSE IF "Backquote" \notin kbd
                THEN quiet /\ drained
                ELSE input' = input /\ quiet /\ kept
       /\ \A i \in 1..Len(input') : input'[i] \notin KeyChars]_vars

\* C16 witness: Enter, Backspace and Tab were just pressed in one frame with
\* a character in the buffer, and the buffer was submitted whole; the
\* character sent for a key is waiting
C16_Witness ==
    /\ pc = "update"
    /\ cstate = "Open"
    /\ "text_input" \in ran
    /\ kbd = {"Enter", "Backspace", "Tab"}
    /\ input = << >>
    /\ out = <<"h", "\n">>
    /\ \E i \in 1..Len(evA \o evB) : (evA \o evB)[i] \in KeyChars

\* The steps of a frame as functions of the state w the frame began in, each
\* taking effect at once.
\* the StateTransition schedule without its OnEnter schedules
StepTransition(w) ==
    [w EXCEPT !.cstate = IF w.nextConsole # None THEN w.nextConsole ELSE @,
              !.nextConsole = None,
              !.trigger = IF w.nextTrigger # None THEN w.nextTrigger ELSE @,
              !.nextTrigger = None]

\* whether the frame that began in w enters CmdTrigger::Fired
Fires(w) == w.nextTrigger = "Fired" /\ w.trigger # "Fired"

\* dispatch: next_state(Ready) and run_cmd, with the system it runs
StepDispatch(w) ==
    LET call == FirstToken(w.args) IN
    [w EXCEPT !.nextTrigger = "Ready",
              !.out = IF call \notin DOMAIN map THEN @ \o NotFoundMsg \o call \o <<NL>>
                      ELSE IF map[call] = helpId THEN Help(@, keysOrder)
                      ELSE @]

\* toggle-detection: the two next_state systems of the Backquote key
StepToggle(w) ==
    IF "Backquote" \in w.kbd /\ w.cstate = "Closed"
    THEN [w EXCEPT !.nextConsole = "AnimatingOpen"]
    ELSE IF "Backquote" \in w.kbd /\ w.cstate = "Open"
    THEN [w EXCEPT !.nextConsole = "AnimatingClosed"]
    ELSE w

\* animation: move_console
StepAnimation(w) ==
    IF w.cstate \notin Animating THEN w
    ELSE LET pos == MovedPos(w.top, w.cstate, w.delta)
             to == Arrived(w.cstate, pos)
         IN  [w EXCEPT !.top = FinalTop(w.cstate, pos),
                       !.nextConsole = IF to = None THEN @ ELSE to,
                       !.evA = IF to = "Open" THEN << >> ELSE @,
                       !.evB = IF to = "Open" THEN << >> ELSE @]

\* input routing: text_input
StepInput(w) ==
    IF w.cstate # "Open" THEN w
    ELSE IF "Enter" \in w.kbd
    THEN [w EXCEPT !.input = << >>, !.out = @ \o w.input \o <<NL>>,
                   !.args = w.input, !.nextTrigger = "Fired"]
    ELSE IF "Backspace" \in w.kbd THEN [w EXCEPT !.input = Pop(@)]
    ELSE IF "Tab" \in w.kbd THEN [w EXCEPT !.out = @ \o TabListing(keysOrder, w.input)]
    ELSE IF "Backquote" \notin w.kbd
    THEN [w EXCEPT !.input = PushChars(@, w.evA \o w.evB), !.evA = << >>, !.evB = << >>]
    ELSE w

\* toggle-detection, animation, input routing, then dispatch
DispatchLast(w) ==
    LET u == StepInput(StepAnimation(StepToggle(StepTransition(w))))
    IN  IF Fires(w) THEN StepDispatch(u) ELSE u

\* dispatch, then toggle-detection, animation, input routing
DispatchFirst(w) ==
    LET t == StepTransition(w)
    IN  StepInput(StepAnimation(StepToggle(IF Fires(w) THEN StepDispatch(t) ELSE t)))

\* the end of a frame
FrameEnds == pc = "update" /\ pc' = "frame"

\* C17: the state at the end of a frame (console state, offset, input
\* buffer, transcript, trigger) is the one the steps produce in the order
\* toggle-detection, animation, input routing, dispatch, whatever order the
\* systems of a schedule ran in.
C17_FixedOrder ==
    [][FrameEnds =>
            LET w == DispatchLast(began) IN
            <<cstate', top', input', out', trigger'>>
                = <<w.cstate, w.top, w.input, w.out, w.trigger>>]_vars

\* C17, amended: the state at the end of a frame, with the requested states,
\* CommandArgs and the character events, is the one the steps produce in
\* the order dispatch, toggle-detection, animation, input routing, whatever
\* order the systems of a schedule ran in.
C17_DispatchFirst ==
    [][FrameEnds =>
            LET w == DispatchFirst(began) IN
            <<cstate', top', input', out', trigger', nextConsole', nextTrigger', args',
              evA', evB'>>
                = <<w.cstate, w.top, w.input, w.out, w.trigger, w.nextConsole,
                    w.nextTrigger, w.args, w.evA, w.evB>>]_vars

\* C17 witness: a frame in which the dispatch ran, and then the toggle and
\* the input router, which the scheduler does not order
C17_Witness ==
    /\ pc = "update"
    /\ Fires(began)
    /\ began.kbd = {"Backquote", "Enter"}
    /\ ran = {"toggle_close", "text_input"}
    /\ Len(dispatched) = 1
    /\ Len(submitted) = 2

\* C18: the transcript is append-only: in every step the transcript before
\* the step is a prefix of the transcript after it.
C18_AppendOnly == [][IsPrefix(out, out')]_vars

\* C18 witness: the transcript holds the echo of a submitted text followed
\* by the dispatcher's not-found report
C18_Witness ==
    /\ pc = "update"
    /\ submitted = <<(<<"h", "e", " ">>)>>
    /\ dispatched = submitted
    /\ <<"h", "e">> \notin DOMAIN map
    /\ out = <<"h", "e", " ", "\n">> \o NotFoundMsg \o <<"h", "e", "\n">>

\* the cycle of the console states
Cycle == {<<"Closed", "AnimatingOpen">>, <<"AnimatingOpen", "Open">>,
          <<"Open", "AnimatingClosed">>, <<"AnimatingClosed", "Closed">>}

\* C19: in every state, the offset is 0 % if ConsoleState is Open and
\* -33.3 % if it is Closed; and every change of ConsoleState is a step of the
\* cycle Closed, AnimatingOpen, Open, AnimatingClosed, Closed.
C19_StateAgreesWithOffset ==
    [][/\ cstate = "Open" => top = 0
       /\ cstate = "Closed" => top = -333
       /\ cstate' = "Open" => top' = 0
       /\ cstate' = "Closed" => top' = -333
       /\ cstate' # cstate => <<cstate, cstate'>> \in Cycle]_vars

\* C19 witness: the console has gone round the cycle: it is Closed, at
\* -33.3 %, after a text was submitted in it while it was Open
C19_Witness ==
    /\ pc = "update"
    /\ cstate = "Closed"
    /\ top = ClosedTop
    /\ submitted # << >>

\* a frame with a positive elapsed time begins
PositiveFrame == pc = "frame" /\ pc' = "trans" /\ delta' > 0

\* C20: if frames with a positive elapsed time keep being run, an opening
\* animation leads to Open and a closing one to Closed, whatever keys are
\* pressed meanwhile; a step of move_console in a frame of zero elapsed time
\* leaves the offset where it is and requests no state, and the frame ends
\* with the offset it began with and no state requested.
C20_AnimationCompletes ==
    /\ ([]<><<PositiveFrame>>_vars) =>
            /\ (cstate = "AnimatingOpen") ~> (cstate = "Open")
            /\ (cstate = "AnimatingClosed") ~> (cstate = "Closed")
    /\ [][(MoveStep /\ delta = 0) =>
            /\ top' = top
            /\ Requested(queue') = {}]_vars
    /\ [][(FrameEnds /\ cstate \in Animating /\ delta = 0) =>
            /\ top' = began.top
            /\ nextConsole' = None]_vars

\* C20 witness: a closing animation arrives, in a frame in which the toggle
\* key and Enter are pressed
C20_Witness ==
    /\ pc = "update"
    /\ cstate = "AnimatingClosed"
    /\ kbd = {"Backquote", "Enter"}
    /\ "move_console" \in ran
    /\ top = ClosedTop
    /\ Requested(queue) = {"Closed"}

\* C20, without the frames of positive elapsed time
C20_CompletesAnyway ==
    /\ (cstate = "AnimatingOpen") ~> (cstate = "Open")
    /\ (cstate = "AnimatingClosed") ~> (cstate = "Closed")

====
